---- MODULE Spec2Model ----
(***************************************************************************)
(* finger-camera: the hand tracker's frame cache (src/src/hand-tracker.ts), *)
(* the effect engine DomainExpansionEffect (domain-expansion-effect.ts) and *)
(* the frame driver with its dwell state machine (main.ts).                 *)
(*                                                                          *)
(* Numbers.  performance.now() is the integer variable now (ms).  Reals of  *)
(* the code are fixed-point integers: opacities and intensities in 1/10000, *)
(* lengths, speeds, delays of burst lines and maxLife in 1/100.  A call of  *)
(* Math.random() is a draw r \in Rand, r/100 being the value returned.      *)
(* A population (an array of the code) is a sequence of groups; a group is  *)
(* n entities with equal fields, so the array length is the sum of the n.   *)
(* The fields ep (burst lines, particles, glyphs, timers) and epoch record  *)
(* which accepted trigger made an entity; the code does not store them.     *)
(***************************************************************************)
EXTENDS Integers, Sequences, FiniteSets, TLC

VARIABLES
  now,                  \* performance.now()
  effectCanvas,         \* [width, height] of the effect canvas
  domainEffect,         \* the DomainExpansionEffect instance the driver holds
  timers,               \* pending setTimeout callbacks, in creation order
  video,                \* the video element: [currentTime, hands the estimator sees]
  handLandmarker,       \* HandTracker.handLandmarker: "none" or "loaded"
  lastVideoTime,        \* HandTracker.lastVideoTime
  lastResult,           \* HandTracker.lastResult
  muryoKushoStartTime,  \* driver: when the pose was first detected, or Null
  muryoKushoTriggered,  \* driver: effect already triggered for this pose
  muryoKushoWasDetected, \* edge-triggered driver: detected on the last new frame
  edgeRun,              \* an edge-triggered program run beside: its [domainEffect, timers]
  frames,               \* frames rendered since the clock last advanced
  resizes,              \* resize events so far
  running,              \* the render loop still requests animation frames
  hist                  \* what the last step did (observation only)

vars == <<now, effectCanvas, domainEffect, timers, video, handLandmarker,
          lastVideoTime, lastResult, muryoKushoStartTime, muryoKushoTriggered,
          muryoKushoWasDetected, edgeRun, frames, resizes, running, hist>>

(* An absent value (null) is the empty sequence, a present value v is <<v>> *)
Null == <<>>
Some(v) == <<v>>

-----------------------------------------------------------------------------
(* Bounds of the model *)

MaxTime == 8000
MaxEngineTime == 5000
MaxLiveTime == 4000
FramesPerTick == 13
MaxResizes == 1
MaxVideoTime == 2

(* The clock advances in steps of TickMs *)
TickMs == 500

(* Values Math.random() returns, in 1/100 *)
Rand == {0, 99}

-----------------------------------------------------------------------------
(* Sequence helpers *)

RECURSIVE SumN(_)
SumN(s) == IF s = <<>> THEN 0 ELSE Head(s).n + SumN(Tail(s))

RECURSIVE MapSeq(_, _, _)
MapSeq(Op(_, _), s, a) ==
  IF s = <<>> THEN <<>> ELSE <<Op(Head(s), a)>> \o MapSeq(Op, Tail(s), a)

RECURSIVE FilterSeq(_, _, _)
FilterSeq(Keep(_, _), s, a) ==
  IF s = <<>> THEN <<>>
  ELSE (IF Keep(Head(s), a) THEN <<Head(s)>> ELSE <<>>) \o FilterSeq(Keep, Tail(s), a)

-----------------------------------------------------------------------------
(* DomainExpansionEffect *)

NewEffect ==
  [isActive |-> FALSE, effectStartTime |-> 0, flashOpacity |-> 0,
   shakeIntensity |-> 0, shakeOffset |-> [x |-> 0, y |-> 0],
   particles |-> <<>>, burstLines |-> <<>>, floatingChars |-> <<>>,
   epoch |-> 0]

(* A variant of createBurstLines without the dramatic lines *)
createBurstLinesTwoLayers(t, r, ep) ==
  << [n |-> 36, length |-> 0, targetLength |-> 50000 + r * 400, opacity |-> 6000,
      speed |-> 2000 + r * 15, delay |-> r * 100, startTime |-> t, layer |-> 0,
      ep |-> ep],
     [n |-> 72, length |-> 0, targetLength |-> 60000 + r * 500, opacity |-> 10000,
      speed |-> 3000 + r * 20, delay |-> 5000 + r * 150, startTime |-> t, layer |-> 1,
      ep |-> ep] >>

(* createBurstLines: 36 back lines, 72 front lines, 12 dramatic lines *)
createBurstLines(t, r, ep) ==
  << [n |-> 36, length |-> 0, targetLength |-> 50000 + r * 400, opacity |-> 6000,
      speed |-> 2000 + r * 15, delay |-> r * 100, startTime |-> t, layer |-> 0,
      ep |-> ep],
     [n |-> 72, length |-> 0, targetLength |-> 60000 + r * 500, opacity |-> 10000,
      speed |-> 3000 + r * 20, delay |-> 5000 + r * 150, startTime |-> t, layer |-> 1,
      ep |-> ep],
     [n |-> 12, length |-> 0, targetLength |-> 80000 + r * 300, opacity |-> 8000,
      speed |-> 4000 + r * 20, delay |-> 0, startTime |-> t, layer |-> 1,
      ep |-> ep] >>

(* A variant of createInkWave with 60 particles in every wave *)
createInkWaveOfSixty(centerX, centerY, waveIndex, r, ep) ==
  << [n |-> 60, cx |-> centerX, cy |-> centerY, life |-> 0,
      maxLife |-> 8000 + r * 60, opacity |-> 7000 + r * 30, wave |-> waveIndex,
      ep |-> ep] >>

(* createInkWave: 60 - 10 * waveIndex particles around (centerX, centerY) *)
createInkWave(centerX, centerY, waveIndex, r, ep) ==
  << [n |-> 60 - waveIndex * 10, cx |-> centerX, cy |-> centerY, life |-> 0,
      maxLife |-> 8000 + r * 60, opacity |-> 7000 + r * 30, wave |-> waveIndex,
      ep |-> ep] >>

(* createFloatingChars: one glyph per character of a four-character text *)
createFloatingChars(groupIndex, baseDelay, t, ep) ==
  [i \in 1..4 |->
     [n |-> 1, char |-> i - 1, opacity |-> 0, delay |-> baseDelay + (i - 1) * 80,
      startTime |-> t, groupIndex |-> groupIndex, ep |-> ep]]

(* The three setTimeout calls of trigger *)
WaveTimers(centerX, centerY, t, ep) ==
  << [due |-> t + 100, delay |-> 100, cx |-> centerX, cy |-> centerY, wave |-> 1, ep |-> ep],
     [due |-> t + 200, delay |-> 200, cx |-> centerX, cy |-> centerY, wave |-> 2, ep |-> ep],
     [due |-> t + 350, delay |-> 350, cx |-> centerX, cy |-> centerY, wave |-> 3, ep |-> ep] >>

(* A variant of CenterX without the mirror *)
CenterXUnmirrored(centerPoint, canvas) == centerPoint.x * canvas.width

(* Mirror X: centerPoint is in 1/200 of the canvas, the centre in 1/200 px *)
CenterX(centerPoint, canvas) == (200 - centerPoint.x) * canvas.width
CenterY(centerPoint, canvas) == centerPoint.y * canvas.height

(* A variant of trigger without the early return on isActive *)
triggerUnguarded(e, centerPoint, canvas, t, rl, rp) ==
  [e EXCEPT
     !.isActive = TRUE,
     !.effectStartTime = t,
     !.flashOpacity = 10000,
     !.shakeIntensity = 200000,
     !.epoch = @ + 1,
     !.burstLines = @ \o createBurstLines(t, rl, e.epoch + 1),
     !.particles = @ \o createInkWave(CenterX(centerPoint, canvas),
                                      CenterY(centerPoint, canvas), 0, rp,
                                      e.epoch + 1),
     !.floatingChars = @ \o createFloatingChars(0, 50, t, e.epoch + 1)
                         \o createFloatingChars(1, 250, t, e.epoch + 1)]

(* A variant of trigger with a shake that lasts longer than the particles *)
triggerShakesLong(e, centerPoint, canvas, t, rl, rp) ==
  IF e.isActive THEN e
  ELSE [triggerUnguarded(e, centerPoint, canvas, t, rl, rp)
          EXCEPT !.shakeIntensity = 20000000]

(* trigger(centerPoint): the engine after the call *)
trigger(e, centerPoint, canvas, t, rl, rp) ==
  IF e.isActive THEN e
  ELSE [e EXCEPT
          !.isActive = TRUE,
          !.effectStartTime = t,
          !.flashOpacity = 10000,
          !.shakeIntensity = 200000,
          !.epoch = @ + 1,
          !.burstLines = @ \o createBurstLines(t, rl, e.epoch + 1),
          !.particles = @ \o createInkWave(CenterX(centerPoint, canvas),
                                           CenterY(centerPoint, canvas), 0, rp,
                                           e.epoch + 1),
          !.floatingChars = @ \o createFloatingChars(0, 50, t, e.epoch + 1)
                              \o createFloatingChars(1, 250, t, e.epoch + 1)]

(* trigger(centerPoint): the callbacks it schedules *)
triggerTimers(e, centerPoint, canvas, t) ==
  IF e.isActive THEN <<>>
  ELSE WaveTimers(CenterX(centerPoint, canvas), CenterY(centerPoint, canvas), t,
                  e.epoch + 1)

(* update(), burst lines *)
LineWaits(line, t) == (t - line.startTime) * 100 < line.delay

(* A variant of UpdateLine that does not wait for the delay *)
UpdateLineAtOnce(line, t) ==
  LET len == line.length + line.speed
  IN  [line EXCEPT !.length = len,
                   !.opacity = IF len >= line.targetLength THEN @ - 250 ELSE @]

UpdateLine(line, t) ==
  IF LineWaits(line, t) THEN line
  ELSE LET len == line.length + line.speed
       IN  [line EXCEPT !.length = len,
                        !.opacity = IF len >= line.targetLength THEN @ - 250 ELSE @]

LineStays(line, t) ==
  LineWaits(line, t) \/ line.length < line.targetLength \/ line.opacity > 0

(* update(), particles *)
UpdateParticle(p, t) ==
  LET life == p.life + 1
  IN  [p EXCEPT !.life = life,
                !.opacity = IF life * 1000 > p.maxLife * 6 THEN (@ * 96) \div 100 ELSE @]

(* A variant of ParticleStays that keeps a particle at life = maxLife *)
ParticleStaysAtMax(p, t) == ~(p.life * 100 > p.maxLife \/ p.opacity < 100)

ParticleStays(p, t) == ~(p.life * 100 >= p.maxLife \/ p.opacity < 100)

(* update(), floating characters; fading is isFadingOut *)
CharWaits(char, t) == t - char.startTime < char.delay

(* A variant of UpdateChar without the fade-out phase *)
UpdateCharFadeInOnly(char, a) ==
  IF CharWaits(char, a.t) THEN char
  ELSE [char EXCEPT !.opacity = @ + ((10000 - @) * 12) \div 100]

UpdateChar(char, a) ==
  IF CharWaits(char, a.t) THEN char
  ELSE [char EXCEPT !.opacity =
          IF a.fading THEN @ - 400 ELSE @ + ((10000 - @) * 12) \div 100]

CharStays(char, a) == CharWaits(char, a.t) \/ ~a.fading \/ char.opacity > 0

Populations(e) == SumN(e.particles) + SumN(e.burstLines) + SumN(e.floatingChars)

UpdateReturnsEarly(e) ==
  ~e.isActive /\ Len(e.particles) = 0 /\ Len(e.burstLines) = 0
  /\ Len(e.floatingChars) = 0

(* Age in ms beyond which update() may end the episode *)
CompletionAge == 3500

(* A variant of IsComplete that does not look at the age *)
IsCompleteWhenEmpty(age, particles, burstLines, floatingChars) ==
  Len(particles) = 0 /\ Len(burstLines) = 0 /\ Len(floatingChars) = 0

(* A variant of IsComplete that does not look at the glyphs *)
IsCompleteWithoutChars(age, particles, burstLines, floatingChars) ==
  age > CompletionAge /\ Len(particles) = 0 /\ Len(burstLines) = 0

(* The completion check at the end of update() *)
IsComplete(age, particles, burstLines, floatingChars) ==
  age > CompletionAge /\ Len(particles) = 0 /\ Len(burstLines) = 0
  /\ Len(floatingChars) = 0

(* update() past its early return; rx, ry are the two draws of the shake *)
UpdateBody(e, t, rx, ry) ==
    LET flash == (e.flashOpacity * 9) \div 10
        shake == (e.shakeIntensity * 92) \div 100
        lines == FilterSeq(LineStays, MapSeq(UpdateLine, e.burstLines, t), t)
        parts == FilterSeq(ParticleStays, MapSeq(UpdateParticle, e.particles, t), t)
        age   == t - e.effectStartTime
        a     == [t |-> t, fading |-> age > 2500]
        chars == FilterSeq(CharStays, MapSeq(UpdateChar, e.floatingChars, a), a)
    IN  [e EXCEPT
           !.flashOpacity = IF flash < 100 THEN 0 ELSE flash,
           !.shakeIntensity = IF shake > 1000 THEN shake ELSE 0,
           !.shakeOffset = IF shake > 1000
                           THEN [x |-> ((2 * rx - 100) * shake) \div 100,
                                 y |-> ((2 * ry - 100) * shake) \div 100]
                           ELSE [x |-> 0, y |-> 0],
           !.burstLines = lines,
           !.particles = parts,
           !.floatingChars = chars,
           !.isActive = IF IsComplete(age, parts, lines, chars) THEN FALSE ELSE @]

(* A variant of update that restarts the age of an engine that is not active *)
updateRestartsAge(e, t, rx, ry) ==
  IF e.isActive THEN UpdateBody(e, t, rx, ry) ELSE [e EXCEPT !.effectStartTime = t]

(* update(): the engine after the call *)
update(e, t, rx, ry) ==
  IF UpdateReturnsEarly(e) THEN e ELSE UpdateBody(e, t, rx, ry)

(* update() draws a new shake offset *)
Shakes(e) == ~UpdateReturnsEarly(e) /\ (e.shakeIntensity * 92) \div 100 > 1000

(* render(): it draws on the canvas and assigns no field of the engine *)
render(e) == e

(* render() returns before drawing *)
RenderReturnsEarly(e) ==
  ~e.isActive /\ Len(e.particles) = 0 /\ Len(e.burstLines) = 0 /\ e.flashOpacity = 0

isEffectActive(e) ==
  e.isActive \/ Len(e.particles) > 0 \/ Len(e.burstLines) > 0 \/ e.flashOpacity > 0

canTrigger(e) == ~e.isActive

(* A setTimeout callback: createInkWave on the instance that scheduled it *)
RunTimer(e, tm, r) ==
  [e EXCEPT !.particles = @ \o createInkWave(tm.cx, tm.cy, tm.wave, r, tm.ep)]

(* Timer i may run: it is due, and every timer started before it with a
   timeout of at most its own has run *)
TimerReady(i) ==
  /\ now >= timers[i].due
  /\ \A j \in 1..(i - 1) : timers[j].delay > timers[i].delay

RemoveAt(s, i) == SubSeq(s, 1, i - 1) \o SubSeq(s, i + 1, Len(s))

-----------------------------------------------------------------------------
(* HandTracker.  Landmark coordinates are in 1/100 of the frame; landmark k
   of the code is element k + 1 of the sequence.  centerPoint is in 1/200 and
   confidence in 1/100. *)

WRIST == 1
INDEX_FINGER_PIP == 7
INDEX_FINGER_TIP == 9
MIDDLE_FINGER_PIP == 11
MIDDLE_FINGER_TIP == 13

NoDetection == [detected |-> FALSE, centerPoint |-> Null, confidence |-> 0]

InitialResult ==
  [rightIndexFingerTip |-> Null, leftIndexFingerTip |-> Null, allHands |-> Null,
   isNewFrame |-> FALSE, muryoKusho |-> NoDetection]

Sq(v) == v * v

(* tipDistance squared: index to middle fingertip, in three dimensions *)
TipDistanceSq(landmarks) ==
  Sq(landmarks[INDEX_FINGER_TIP].x - landmarks[MIDDLE_FINGER_TIP].x)
  + Sq(landmarks[INDEX_FINGER_TIP].y - landmarks[MIDDLE_FINGER_TIP].y)
  + Sq(landmarks[INDEX_FINGER_TIP].z - landmarks[MIDDLE_FINGER_TIP].z)

(* handSize squared: wrist to middle fingertip, in two dimensions *)
HandSizeSq(landmarks) ==
  Sq(landmarks[WRIST].x - landmarks[MIDDLE_FINGER_TIP].x)
  + Sq(landmarks[WRIST].y - landmarks[MIDDLE_FINGER_TIP].y)

(* A variant of TipsClose with <= in place of < *)
TipsCloseInclusive(tipSq, handSq) == handSq > 0 /\ tipSq * 400 <= handSq * 9

(* A variant of TipsClose that takes 0 / 0 for 0 *)
TipsCloseOrCoincident(tipSq, handSq) ==
  (handSq = 0 /\ tipSq = 0) \/ (handSq > 0 /\ tipSq * 400 < handSq * 9)

(* normalizedTipDistance < TOUCH_THRESHOLD, with tipDistance / handSize < 0.15
   compared in squares: tipSq / handSq < 9 / 400.  With handSize = 0 the
   quotient is Infinity or NaN and the comparison is false. *)
TipsClose(tipSq, handSq) == handSq > 0 /\ tipSq * 400 < handSq * 9

(* The least q >= from with normalizedTipDistance / 0.15 <= q / 100 *)
RECURSIVE CeilRatio(_, _, _)
CeilRatio(tipSq, handSq, from) ==
  IF tipSq * 4000000 <= Sq(from) * 9 * handSq THEN from
  ELSE CeilRatio(tipSq, handSq, from + 1)

NaN == -1

(* A variant of ConfidenceOf without Math.max(0, ...) *)
ConfidenceUnclamped(tipSq, handSq) ==
  IF handSq = 0 THEN (IF tipSq = 0 THEN NaN ELSE 0)
  ELSE 100 - CeilRatio(tipSq, handSq, 0)

(* confidence = Math.max(0, 1 - normalizedTipDistance / TOUCH_THRESHOLD), in
   1/100, rounded down.  0 / 0 gives NaN; x / 0 gives Infinity and so 0. *)
ConfidenceOf(tipSq, handSq) ==
  IF handSq = 0 THEN (IF tipSq = 0 THEN NaN ELSE 0)
  ELSE IF tipSq * 400 >= handSq * 9 THEN 0
  ELSE 100 - CeilRatio(tipSq, handSq, 0)

(* A variant of FingerExtended with the comparison turned round *)
FingerExtendedDown(tip, pip) == tip.y > pip.y

(* indexExtended, middleExtended: the tip is above the PIP joint *)
FingerExtended(tip, pip) == tip.y < pip.y

(* One hand of detectMuryoKusho's loop: the detection it returns, or
   NoDetection when the loop goes on to the next hand *)
ClassifyHand(landmarks) ==
  IF Len(landmarks) < 21 THEN NoDetection
  ELSE
    LET indexTip  == landmarks[INDEX_FINGER_TIP]
        middleTip == landmarks[MIDDLE_FINGER_TIP]
        tipsClose == TipsClose(TipDistanceSq(landmarks), HandSizeSq(landmarks))
        indexExtended == FingerExtended(indexTip, landmarks[INDEX_FINGER_PIP])
        middleExtended == FingerExtended(middleTip, landmarks[MIDDLE_FINGER_PIP])
    IN  IF tipsClose /\ indexExtended /\ middleExtended
        THEN [detected |-> TRUE,
              centerPoint |-> Some([x |-> indexTip.x + middleTip.x,
                                    y |-> indexTip.y + middleTip.y]),
              confidence |-> ConfidenceOf(TipDistanceSq(landmarks),
                                          HandSizeSq(landmarks))]
        ELSE NoDetection

(* A variant of FirstDetection that returns the last hand in the pose *)
RECURSIVE LastDetection(_)
LastDetection(hands) ==
  IF hands = <<>> THEN NoDetection
  ELSE IF LastDetection(Tail(hands)).detected THEN LastDetection(Tail(hands))
  ELSE ClassifyHand(Head(hands))

RECURSIVE FirstDetection(_)
FirstDetection(hands) ==
  IF hands = <<>> THEN NoDetection
  ELSE IF ClassifyHand(Head(hands)).detected THEN ClassifyHand(Head(hands))
  ELSE FirstDetection(Tail(hands))

detectMuryoKusho(detectionResult) == FirstDetection(detectionResult.landmarks)

(* The confidence detectMuryoKusho computes for each hand: Null for a hand it
   skips and for the hands after the one it returns *)
RECURSIVE ExaminedConfidences(_)
ExaminedConfidences(hands) ==
  IF hands = <<>> THEN <<>>
  ELSE IF Len(Head(hands)) < 21 THEN <<Null>> \o ExaminedConfidences(Tail(hands))
  ELSE <<Some(ConfidenceOf(TipDistanceSq(Head(hands)), HandSizeSq(Head(hands))))>>
       \o (IF ClassifyHand(Head(hands)).detected
           THEN [i \in 1..Len(Tail(hands)) |-> Null]
           ELSE ExaminedConfidences(Tail(hands)))

(* The per-hand loop of detect: the index fingertip of the last hand labelled
   label, or Null.  A hand without handedness is skipped. *)
RECURSIVE FingerTip(_, _, _)
FingerTip(detectionResult, label, i) ==
  IF i = 0 THEN Null
  ELSE LET landmarks == detectionResult.landmarks[i]
           handedness == detectionResult.handednesses[i]
       IN  IF Len(handedness) > 0 /\ handedness[1] = label
           THEN Some([x |-> landmarks[INDEX_FINGER_TIP].x,
                      y |-> landmarks[INDEX_FINGER_TIP].y])
           ELSE FingerTip(detectionResult, label, i - 1)

(* The per-hand loop reads landmarks[INDEX_FINGER_TIP].x of every hand that has
   a handedness: a TypeError when that landmark is missing *)
LoopThrows(detectionResult) ==
  \E i \in 1..Len(detectionResult.landmarks) :
    /\ Len(detectionResult.handednesses[i]) > 0
    /\ Len(detectionResult.landmarks[i]) < INDEX_FINGER_TIP

(* detect takes its early return *)
DetectIsCached(landmarker, lastTime, currentTime) ==
  landmarker = "none" \/ currentTime = lastTime

(* The result detect computes for a new frame *)
FreshResult(detectionResult) ==
  IF Len(detectionResult.landmarks) = 0
  THEN [InitialResult EXCEPT !.isNewFrame = TRUE, !.allHands = Some(detectionResult)]
  ELSE [rightIndexFingerTip |->
          FingerTip(detectionResult, "Right", Len(detectionResult.landmarks)),
        leftIndexFingerTip |->
          FingerTip(detectionResult, "Left", Len(detectionResult.landmarks)),
        allHands |-> Some(detectionResult),
        isNewFrame |-> TRUE,
        muryoKusho |-> detectMuryoKusho(detectionResult)]

(* A variant of detect that keeps the detection of the previous result when
   the new frame shows no hand in the pose *)
detectSmoothed(landmarker, lastTime, last, vid) ==
  IF DetectIsCached(landmarker, lastTime, vid.currentTime)
  THEN [throws |-> FALSE, result |-> [last EXCEPT !.isNewFrame = FALSE],
        lastVideoTime |-> lastTime, lastResult |-> last, estimated |-> FALSE]
  ELSE IF vid.hands.fails \/ LoopThrows(vid.hands)
  THEN [throws |-> TRUE, result |-> InitialResult,
        lastVideoTime |-> vid.currentTime, lastResult |-> last, estimated |-> TRUE]
  ELSE LET fresh == FreshResult(vid.hands)
           result == IF fresh.muryoKusho.detected THEN fresh
                     ELSE [fresh EXCEPT !.muryoKusho = last.muryoKusho]
       IN  [throws |-> FALSE, result |-> result, lastVideoTime |-> vid.currentTime,
            lastResult |-> result, estimated |-> TRUE]

(* detect(video, timestamp): whether it throws, what it returns, the fields it
   leaves and whether it called the estimator.  vid.hands is what
   detectForVideo does on the frame: it fails, or reports hands. *)
detect(landmarker, lastTime, last, vid) ==
  IF DetectIsCached(landmarker, lastTime, vid.currentTime)
  THEN [throws |-> FALSE, result |-> [last EXCEPT !.isNewFrame = FALSE],
        lastVideoTime |-> lastTime, lastResult |-> last, estimated |-> FALSE]
  ELSE IF vid.hands.fails \/ LoopThrows(vid.hands)
  THEN [throws |-> TRUE, result |-> InitialResult,
        lastVideoTime |-> vid.currentTime, lastResult |-> last, estimated |-> TRUE]
  ELSE LET result == FreshResult(vid.hands)
       IN  [throws |-> FALSE, result |-> result, lastVideoTime |-> vid.currentTime,
            lastResult |-> result, estimated |-> TRUE]

(* Hands the estimator reports *)
Pt(x, y, z) == [x |-> x, y |-> y, z |-> z]

HandOf(wrist, indexPip, indexTip, middlePip, middleTip) ==
  [k \in 1..21 |->
     CASE k = WRIST -> wrist
       [] k = INDEX_FINGER_PIP -> indexPip
       [] k = INDEX_FINGER_TIP -> indexTip
       [] k = MIDDLE_FINGER_PIP -> middlePip
       [] k = MIDDLE_FINGER_TIP -> middleTip
       [] OTHER -> Pt(50, 70, 0)]

(* index and middle fingertips touching, both fingers pointing up *)
PoseAt(x, y) ==
  HandOf(Pt(x, y + 40, 0), Pt(x, y + 10, 0), Pt(x, y, 0), Pt(x + 2, y + 10, 0),
         Pt(x + 2, y, 0))

(* fingers spread *)
OpenAt(x, y) ==
  HandOf(Pt(x, y + 40, 0), Pt(x, y + 10, 0), Pt(x, y, 0), Pt(x + 20, y + 10, 0),
         Pt(x + 20, y, 0))

Estimate(hands, labels) ==
  [fails |-> FALSE, landmarks |-> hands,
   handednesses |-> [i \in 1..Len(labels) |-> <<labels[i]>>]]

(* detectForVideo throws *)
EstimatorFails == [fails |-> TRUE, landmarks |-> <<>>, handednesses |-> <<>>]

(* a hand of four landmarks *)
ShortHand == Estimate(<<[k \in 1..4 |-> Pt(50, 70, 0)]>>, <<"Right">>)

NoHands == Estimate(<<>>, <<>>)
PoseA == Estimate(<<PoseAt(40, 30)>>, <<"Right">>)
PoseB == Estimate(<<PoseAt(60, 50)>>, <<"Left">>)
OpenHand == Estimate(<<OpenAt(40, 30)>>, <<"Right">>)
OpenAndPose == Estimate(<<OpenAt(20, 30), PoseAt(60, 50)>>, <<"Left", "Right">>)

(* a hand in the pose reported with an empty handedness *)
UnlabelledPose == [Estimate(<<PoseAt(40, 30)>>, <<"Right">>) EXCEPT !.handednesses = <<<<>>>>]

-----------------------------------------------------------------------------
(* The frame driver (main.ts) *)

muryoKushoHoldDuration == 3000

CanvasSizes == {[width |-> 640, height |-> 480]}

(* A variant of HoldElapsed with a strict comparison *)
HoldElapsedStrictly(start, t) == t - start[1] > muryoKushoHoldDuration

(* holdDuration >= CONFIG.muryoKushoHoldDuration *)
HoldElapsed(start, t) == t - start[1] >= muryoKushoHoldDuration

(* A variant of DwellFires that does not read canTrigger() *)
DwellFiresWhenBusy(trig, start, ct, centerPoint, t) ==
  ~trig /\ HoldElapsed(start, t) /\ centerPoint # Null

(* The condition under which the dwell block invokes trigger *)
DwellFires(trig, start, ct, centerPoint, t) ==
  ~trig /\ HoldElapsed(start, t) /\ ct /\ centerPoint # Null

(* A variant of DwellMarked that never sets the flag *)
DwellMarkedNever(trig, fire) == trig

(* muryoKushoTriggered after the trigger branch *)
DwellMarked(trig, fire) == trig \/ fire

(* A variant of DwellReleased that keeps the start time *)
DwellReleasedKeepsStart(startTime, triggered) ==
  [startTime |-> startTime, triggered |-> FALSE, fire |-> FALSE]

(* A variant of DwellReleased that keeps the fired flag *)
DwellReleasedKeepsFlag(startTime, triggered) ==
  [startTime |-> Null, triggered |-> triggered, fire |-> FALSE]

(* The branch of the dwell block for a new frame without the pose *)
DwellReleased(startTime, triggered) ==
  [startTime |-> Null, triggered |-> FALSE, fire |-> FALSE]

(* A variant of Dwell that does not test result.isNewFrame *)
DwellEveryFrame(result, startTime, triggered, ct, t) ==
  IF result.muryoKusho.detected
  THEN LET start == IF startTime = Null THEN Some(t) ELSE startTime
           trig  == IF startTime = Null THEN FALSE ELSE triggered
           fire  == DwellFires(trig, start, ct, result.muryoKusho.centerPoint, t)
       IN  [startTime |-> start, triggered |-> DwellMarked(trig, fire), fire |-> fire]
  ELSE DwellReleased(startTime, triggered)

(* The dwell block of render(): the pose state it leaves and whether it
   invokes trigger.  ct is the canTrigger() it read, t its performance.now() *)
Dwell(result, startTime, triggered, ct, t) ==
  IF ~result.isNewFrame
  THEN [startTime |-> startTime, triggered |-> triggered, fire |-> FALSE]
  ELSE IF result.muryoKusho.detected
  THEN LET start == IF startTime = Null THEN Some(t) ELSE startTime
           trig  == IF startTime = Null THEN FALSE ELSE triggered
           fire  == DwellFires(trig, start, ct, result.muryoKusho.centerPoint, t)
       IN  [startTime |-> start, triggered |-> DwellMarked(trig, fire), fire |-> fire]
  ELSE DwellReleased(startTime, triggered)

(* A variant of HoldReached with a strict comparison *)
HoldReachedStrictly(hold, start, t) == t - start[1] > hold

(* holdDuration >= CONFIG.muryoKushoHoldDuration, the configured value being hold *)
HoldReached(hold, start, t) == t - start[1] >= hold

(* The dwell block of render() with CONFIG.muryoKushoHoldDuration = hold *)
DwellAfter(hold, result, startTime, triggered, ct, t) ==
  IF ~result.isNewFrame
  THEN [startTime |-> startTime, triggered |-> triggered, fire |-> FALSE]
  ELSE IF result.muryoKusho.detected
  THEN LET start == IF startTime = Null THEN Some(t) ELSE startTime
           trig  == IF startTime = Null THEN FALSE ELSE triggered
           fire  == /\ ~trig /\ HoldReached(hold, start, t) /\ ct
                    /\ result.muryoKusho.centerPoint # Null
       IN  [startTime |-> start, triggered |-> (trig \/ fire), fire |-> fire]
  ELSE [startTime |-> Null, triggered |-> FALSE, fire |-> FALSE]

(* A variant of EdgeFires that does not read muryoKushoWasDetected *)
EdgeFiresWhileHeld(detected, wasDetected, ct, centerPoint) ==
  detected /\ ct /\ centerPoint # Null

(* Edge-triggered driver: the condition under which render() invokes trigger *)
EdgeFires(detected, wasDetected, ct, centerPoint) ==
  detected /\ ~wasDetected /\ ct /\ centerPoint # Null

(* Edge-triggered driver: the pose block of render() *)
Edge(result, wasDetected, ct) ==
  IF ~result.isNewFrame THEN [wasDetected |-> wasDetected, fire |-> FALSE]
  ELSE [wasDetected |-> result.muryoKusho.detected,
        fire |-> EdgeFires(result.muryoKusho.detected, wasDetected, ct,
                           result.muryoKusho.centerPoint)]

(* What a step leaves in hist, for observation.  op names the step; result,
   cached, estimated describe the detect call of the step.  poseSince is the
   clock of the first new frame of the current run of detected new frames,
   poseTriggers the trigger calls of the driver in that run; first says that
   the step's frame is the first new frame of the run on which the hold
   duration has elapsed, busy that the hold has elapsed on the step's frame
   with no trigger in the run so far and canTrigger() false, deferred that the
   run has had a busy frame, aborted that an earlier run ended before its hold
   duration elapsed, threw that the detect call of the step threw, computed
   the confidence the classifier computed for each hand (Null for a hand it
   did not come to), startAnchor the centerPoint of the first frame of the
   current run of detected new frames (up to the frame after its trigger),
   rising that the step's frame is a new frame showing the
   pose after a new frame without it (or after none).  past: whether a detect
   call made on the tracker alone has returned a detection of the pose, and
   whether one has thrown, so far.  cleared: the step's update() cleared isActive;
   accepted: the step's trigger was accepted. *)
InitHist ==
  [op |-> "init", result |-> InitialResult, cached |-> FALSE, estimated |-> FALSE,
   threw |-> FALSE, computed |-> <<>>, rising |-> FALSE, isNewFrame |-> FALSE, detected |-> FALSE, fire |-> FALSE, ct |-> TRUE,
   poseSince |-> Null, poseTriggers |-> 0, ripe |-> FALSE, first |-> FALSE,
   busy |-> FALSE, deferred |-> FALSE, aborted |-> FALSE,
   cleared |-> FALSE, accepted |-> FALSE, startAnchor |-> Null,
   past |-> [detected |-> FALSE, failed |-> FALSE],
   edge |-> [fire |-> FALSE, ct |-> TRUE, triggers |-> 0, agree |-> TRUE,
             startCt |-> <<TRUE, TRUE>>]]

Quiet(op) ==
  [hist EXCEPT !.op = op, !.result = InitialResult, !.cached = FALSE,
               !.estimated = FALSE, !.threw = FALSE, !.computed = <<>>,
               !.rising = FALSE, !.isNewFrame = FALSE,
               !.fire = FALSE,
               !.first = FALSE, !.busy = FALSE, !.cleared = FALSE,
               !.accepted = FALSE, !.edge.fire = FALSE]

Elapsed(since, t) == since # Null /\ t - since[1] >= muryoKushoHoldDuration

FrameHist(d, dw, ct, e1, e2) ==
  LET result == d.result
      new    == result.isNewFrame
      det    == new /\ result.muryoKusho.detected
      starts == det /\ hist.poseSince = Null
      since  == IF ~new THEN hist.poseSince
                ELSE IF ~det THEN Null
                ELSE IF starts THEN Some(now) ELSE hist.poseSince
      fresh  == new /\ (~det \/ starts)
      n      == IF fresh THEN 0 ELSE hist.poseTriggers
      ripe   == IF fresh THEN FALSE ELSE hist.ripe
      busy   == det /\ Elapsed(since, now) /\ n = 0 /\ ~ct
  IN  [op |-> "frame", result |-> result,
       cached |-> ~d.estimated, estimated |-> d.estimated, threw |-> FALSE,
       computed |-> <<>>, rising |-> starts, isNewFrame |-> new, detected |-> result.muryoKusho.detected,
       fire |-> dw.fire, ct |-> ct, poseSince |-> since,
       poseTriggers |-> n + (IF dw.fire THEN 1 ELSE 0),
       ripe |-> (ripe \/ (det /\ Elapsed(since, now))),
       first |-> (det /\ Elapsed(since, now) /\ ~ripe),
       busy |-> busy,
       deferred |-> ((IF fresh THEN FALSE ELSE hist.deferred) \/ busy),
       aborted |-> (hist.aborted
                    \/ (new /\ ~det /\ hist.poseSince # Null /\ ~hist.ripe)),
       cleared |-> (e1.isActive /\ ~e2.isActive),
       accepted |-> (dw.fire /\ ~domainEffect.isActive),
       startAnchor |-> (IF ~new THEN hist.startAnchor
                        ELSE IF ~det THEN Null
                        ELSE IF starts THEN result.muryoKusho.centerPoint
                        ELSE IF hist.poseTriggers > 0 THEN Null
                        ELSE hist.startAnchor),
       past |-> hist.past,
       edge |-> [hist.edge EXCEPT !.fire = FALSE]]

(* What a step of the two programs run side by side leaves in hist.edge:
   fire, ct are the trigger call and the canTrigger() of the edge-triggered
   program on the step's frame, triggers its trigger calls in the current run
   of detected new frames, startCt the canTrigger() the dwell program and the
   edge-triggered program read on the first frame of that run, agree that the
   two programs have read the same canTrigger() on every frame so far *)
PairHist(d, ed, ctD, ctE) ==
  LET new    == d.result.isNewFrame
      det    == new /\ d.result.muryoKusho.detected
      starts == det /\ hist.poseSince = Null
      fresh  == new /\ (~det \/ starts)
  IN  [fire |-> ed.fire, ct |-> ctE,
       triggers |-> (IF fresh THEN 0 ELSE hist.edge.triggers)
                    + (IF ed.fire THEN 1 ELSE 0),
       agree |-> (hist.edge.agree /\ ctD = ctE),
       startCt |-> IF starts THEN <<ctD, ctE>> ELSE hist.edge.startCt]

(* One iteration of render() in which detect returns: detect, dwell block,
   update(), render(), requestAnimationFrame.  R are the draws of a trigger,
   RS the draws of the shake. *)
FrameStep(d, dw, ct, e1, tm, e2) ==
  /\ lastVideoTime' = d.lastVideoTime
  /\ lastResult' = d.lastResult
  /\ muryoKushoStartTime' = dw.startTime
  /\ muryoKushoTriggered' = dw.triggered
  /\ domainEffect' = render(e2)
  /\ timers' = timers \o tm
  /\ frames' = frames + 1
  /\ hist' = FrameHist(d, dw, ct, e1, e2)
  /\ UNCHANGED <<edgeRun, running, muryoKushoWasDetected>>

(* An iteration of render() in which detect throws: the exception leaves
   render() before requestAnimationFrame, so no further frame is rendered *)
FrameThrows(d) ==
  /\ lastVideoTime' = d.lastVideoTime
  /\ lastResult' = d.lastResult
  /\ running' = FALSE
  /\ frames' = frames + 1
  /\ hist' = [Quiet("throw") EXCEPT !.estimated = d.estimated, !.threw = TRUE]
  /\ UNCHANGED <<edgeRun, muryoKushoStartTime, muryoKushoTriggered, muryoKushoWasDetected, domainEffect, timers>>

Frame(R, RS) ==
  /\ running
  /\ frames < FramesPerTick
  /\ \A i \in 1..Len(timers) : ~TimerReady(i)
  /\ \E d \in {detect(handLandmarker, lastVideoTime, lastResult, video)} :
       IF d.throws THEN FrameThrows(d)
       ELSE
         \E ct \in {canTrigger(domainEffect)} :
         \E dw \in {Dwell(d.result, muryoKushoStartTime, muryoKushoTriggered, ct, now)} :
         \E rl \in (IF dw.fire THEN R ELSE {0}), rp \in (IF dw.fire THEN R ELSE {0}) :
         \E e1 \in {IF dw.fire
                    THEN trigger(domainEffect, d.result.muryoKusho.centerPoint[1],
                                 effectCanvas, now, rl, rp)
                    ELSE domainEffect} :
         \E tm \in {IF dw.fire
                    THEN triggerTimers(domainEffect, d.result.muryoKusho.centerPoint[1],
                                       effectCanvas, now)
                    ELSE <<>>} :
         \E rx \in (IF Shakes(e1) THEN RS ELSE {0}),
            ry \in (IF Shakes(e1) THEN RS ELSE {0}) :
         \E e2 \in {update(e1, now, rx, ry)} :
           FrameStep(d, dw, ct, e1, tm, e2)
  /\ UNCHANGED <<now, effectCanvas, video, handLandmarker, resizes>>

(* Edge-triggered driver: one iteration of render() *)
EdgeFrameStep(d, ed, ct, e1, tm, e2) ==
  /\ lastVideoTime' = d.lastVideoTime
  /\ lastResult' = d.lastResult
  /\ muryoKushoWasDetected' = ed.wasDetected
  /\ domainEffect' = render(e2)
  /\ timers' = timers \o tm
  /\ frames' = frames + 1
  /\ hist' = FrameHist(d, ed, ct, e1, e2)
  /\ UNCHANGED <<edgeRun, running, muryoKushoStartTime, muryoKushoTriggered>>

EdgeFrame(R, RS) ==
  /\ running
  /\ frames < FramesPerTick
  /\ \A i \in 1..Len(timers) : ~TimerReady(i)
  /\ \E d \in {detect(handLandmarker, lastVideoTime, lastResult, video)} :
       IF d.throws THEN FrameThrows(d)
       ELSE
         \E ct \in {canTrigger(domainEffect)} :
         \E ed \in {Edge(d.result, muryoKushoWasDetected, ct)} :
         \E rl \in (IF ed.fire THEN R ELSE {0}), rp \in (IF ed.fire THEN R ELSE {0}) :
         \E e1 \in {IF ed.fire
                    THEN trigger(domainEffect, d.result.muryoKusho.centerPoint[1],
                                 effectCanvas, now, rl, rp)
                    ELSE domainEffect} :
         \E tm \in {IF ed.fire
                    THEN triggerTimers(domainEffect, d.result.muryoKusho.centerPoint[1],
                                       effectCanvas, now)
                    ELSE <<>>} :
         \E rx \in (IF Shakes(e1) THEN RS ELSE {0}),
            ry \in (IF Shakes(e1) THEN RS ELSE {0}) :
         \E e2 \in {update(e1, now, rx, ry)} :
           EdgeFrameStep(d, ed, ct, e1, tm, e2)
  /\ UNCHANGED <<now, effectCanvas, video, handLandmarker, resizes>>

(* The dwell program with hold duration 0 and the edge-triggered program side
   by side: one iteration of render() in each, on the same video frame and at
   the same performance.now().  Each program has its engine and its pose
   state; detect gives both the same result. *)
PairRender(d, ctD, dw, ctE, ed) ==
  \E e1 \in {IF dw.fire
              THEN trigger(domainEffect, d.result.muryoKusho.centerPoint[1],
                           effectCanvas, now, 0, 0)
              ELSE domainEffect} :
  \E tm \in {IF dw.fire
              THEN triggerTimers(domainEffect, d.result.muryoKusho.centerPoint[1],
                                 effectCanvas, now)
              ELSE <<>>} :
  \E e2 \in {update(e1, now, 0, 0)} :
  \E f1 \in {IF ed.fire
              THEN trigger(edgeRun.domainEffect, d.result.muryoKusho.centerPoint[1],
                           effectCanvas, now, 0, 0)
              ELSE edgeRun.domainEffect} :
  \E um \in {IF ed.fire
              THEN triggerTimers(edgeRun.domainEffect,
                                 d.result.muryoKusho.centerPoint[1], effectCanvas, now)
              ELSE <<>>} :
  \E f2 \in {update(f1, now, 0, 0)} :
    /\ lastVideoTime' = d.lastVideoTime
    /\ lastResult' = d.lastResult
    /\ muryoKushoStartTime' = dw.startTime
    /\ muryoKushoTriggered' = dw.triggered
    /\ muryoKushoWasDetected' = ed.wasDetected
    /\ domainEffect' = render(e2)
    /\ timers' = timers \o tm
    /\ edgeRun' = [domainEffect |-> render(f2), timers |-> edgeRun.timers \o um]
    /\ frames' = frames + 1
    /\ hist' = [FrameHist(d, dw, ctD, e1, e2) EXCEPT !.edge = PairHist(d, ed, ctD, ctE)]
    /\ UNCHANGED running

PairFrame(hold) ==
  /\ running
  /\ frames < FramesPerTick
  /\ \A i \in 1..Len(timers) : ~TimerReady(i)
  /\ \A i \in 1..Len(edgeRun.timers) : now < edgeRun.timers[i].due
  /\ \E d \in {detect(handLandmarker, lastVideoTime, lastResult, video)} :
       IF d.throws THEN FrameThrows(d)
       ELSE
         \E ctD \in {canTrigger(domainEffect)} :
         \E dw \in {DwellAfter(hold, d.result, muryoKushoStartTime, muryoKushoTriggered,
                               ctD, now)} :
         \E ctE \in {canTrigger(edgeRun.domainEffect)} :
         \E ed \in {Edge(d.result, muryoKushoWasDetected, ctE)} :
           PairRender(d, ctD, dw, ctE, ed)
  /\ UNCHANGED <<now, effectCanvas, video, handLandmarker, resizes>>

(* A wave callback of the edge-triggered program runs: the oldest due one *)
PairTimerFire ==
  /\ edgeRun.timers # <<>>
  /\ now >= edgeRun.timers[1].due
  /\ edgeRun' = [domainEffect |-> RunTimer(edgeRun.domainEffect, edgeRun.timers[1], 0),
                 timers |-> Tail(edgeRun.timers)]
  /\ hist' = Quiet("timer")
  /\ UNCHANGED <<now, effectCanvas, domainEffect, timers, video, handLandmarker,
                 lastVideoTime, lastResult, muryoKushoStartTime, muryoKushoTriggered,
                 muryoKushoWasDetected, frames, resizes, running>>

(* The clock advances by TickMs, up to max; the camera may deliver a frame on
   which the estimator does one of E *)
Tick(E, max) ==
  /\ now + TickMs <= max
  /\ now' = now + TickMs
  /\ frames' = 0
  /\ \/ video' = video
     \/ \E h \in E : video' = [currentTime |-> now', hands |-> h]
  /\ hist' = Quiet("tick")
  /\ UNCHANGED <<edgeRun, effectCanvas, domainEffect, timers, handLandmarker, lastVideoTime,
                 lastResult, muryoKushoStartTime, muryoKushoTriggered, muryoKushoWasDetected, resizes,
                 running>>

(* A wave callback of setTimeout runs *)
TimerFire(R) ==
  \E i \in 1..Len(timers) : \E r \in R :
    /\ TimerReady(i)
    /\ domainEffect' = RunTimer(domainEffect, timers[i], r)
    /\ timers' = RemoveAt(timers, i)
    /\ hist' = Quiet("timer")
    /\ UNCHANGED <<edgeRun, now, effectCanvas, video, handLandmarker, lastVideoTime, lastResult,
                   muryoKushoStartTime, muryoKushoTriggered, muryoKushoWasDetected, frames, resizes, running>>

(* resizeCanvases(): the canvases take the window size and the driver replaces
   its engine.  The callbacks of the replaced instance act on that instance
   only, which nothing reads any more. *)
resizeCanvases ==
  /\ resizes < MaxResizes
  /\ resizes' = resizes + 1
  /\ \E size \in CanvasSizes : effectCanvas' = size
  /\ domainEffect' = NewEffect
  /\ timers' = <<>>
  /\ hist' = Quiet("resize")
  /\ UNCHANGED <<edgeRun, now, video, handLandmarker, lastVideoTime, lastResult,
                 muryoKushoStartTime, muryoKushoTriggered, muryoKushoWasDetected, frames, running>>

-----------------------------------------------------------------------------
(* The running application: camera, tracker and render loop are set up.  The
   render loop runs FramesPerTick iterations per clock value, the camera
   delivers at most one frame per clock value, and a due wave callback runs
   before the next iteration. *)

(* The state after set-up, the video element showing one of the frames E *)
Setup(landmarker, E) ==
  /\ now = 0
  /\ effectCanvas = [width |-> 1000, height |-> 800]
  /\ domainEffect = NewEffect
  /\ timers = <<>>
  /\ \E h \in E : video = [currentTime |-> 0, hands |-> h]
  /\ handLandmarker = landmarker
  /\ lastVideoTime = -1
  /\ lastResult = InitialResult
  /\ muryoKushoStartTime = Null
  /\ muryoKushoTriggered = FALSE
  /\ muryoKushoWasDetected = FALSE
  /\ edgeRun = [domainEffect |-> NewEffect, timers |-> <<>>]
  /\ frames = 0
  /\ resizes = 0
  /\ running = TRUE
  /\ hist = InitHist

Init == Setup("loaded", {NoHands})

Hands == {NoHands, PoseA, PoseB, EstimatorFails}

RenderLoop == Frame({0}, {0})
ClockTick == frames = FramesPerTick /\ Tick(Hands, MaxTime)
WaveCallback == TimerFire({0})

Next == RenderLoop \/ ClockTick \/ WaveCallback \/ resizeCanvases

Spec == Init /\ [][Next]_vars

-----------------------------------------------------------------------------
(* The engine alone, under any caller: trigger is called at will, update()
   FramesPerTick times or not at all per clock value, and a wave callback runs
   at any clock value from its due time on *)

Anchors == {[x |-> 82, y |-> 60], [x |-> 122, y |-> 100]}

CallTrigger(A, R) ==
  \E anchor \in A : \E rl \in R, rp \in R :
    /\ domainEffect' = trigger(domainEffect, anchor, effectCanvas, now, rl, rp)
    /\ timers' = timers \o triggerTimers(domainEffect, anchor, effectCanvas, now)
    /\ hist' = [Quiet("trigger") EXCEPT !.accepted = ~domainEffect.isActive]
    /\ UNCHANGED <<edgeRun, now, effectCanvas, video, handLandmarker, lastVideoTime, lastResult,
                   muryoKushoStartTime, muryoKushoTriggered, muryoKushoWasDetected, frames, resizes, running>>

(* update() is called; late: the clock value is the last one tracked, where
   the calls are not counted *)
CallUpdate(RS, late) ==
  /\ frames < FramesPerTick \/ late
  /\ \E rx \in (IF Shakes(domainEffect) THEN RS ELSE {0}),
        ry \in (IF Shakes(domainEffect) THEN RS ELSE {0}) :
     \E e2 \in {update(domainEffect, now, rx, ry)} :
       /\ domainEffect' = e2
       /\ hist' = [Quiet("update") EXCEPT !.cleared = domainEffect.isActive /\ ~e2.isActive]
  /\ frames' = IF frames < FramesPerTick THEN frames + 1 ELSE frames
  /\ UNCHANGED <<edgeRun, now, effectCanvas, timers, video, handLandmarker, lastVideoTime,
                 lastResult, muryoKushoStartTime, muryoKushoTriggered, muryoKushoWasDetected, resizes, running>>

EngineTrigger == frames = 0 /\ CallTrigger(Anchors, {0})
EngineUpdate == CallUpdate({0}, FALSE)
EngineTimer == frames = 0 /\ TimerFire({0})
EngineTick == frames \in {0, FramesPerTick} /\ Tick({}, MaxEngineTime)

NextEngine == EngineTrigger \/ EngineUpdate \/ EngineTimer \/ EngineTick

SpecEngine == Init /\ [][NextEngine]_vars

-----------------------------------------------------------------------------
(* One engine whose update() keeps being called while the clock advances:
   FramesPerTick calls per clock value.  A trigger is called while the clock
   can still pass CompletionAge after it.  The clock is tracked up to
   LastClock; there update() goes on without a count, every age the code
   compares being past its threshold.  A wave callback runs at any clock
   value from its due time on, or never. *)

LastClock == (MaxLiveTime \div TickMs) * TickMs

LiveTrigger ==
  /\ frames = 0
  /\ LastClock - now > CompletionAge
  /\ CallTrigger({[x |-> 82, y |-> 60]}, Rand)
LiveUpdate == CallUpdate({0}, now = LastClock)
LiveTimer == frames = 0 /\ TimerFire({0})
LiveTick == frames = FramesPerTick /\ Tick({}, MaxLiveTime)

NextLive == LiveTrigger \/ LiveUpdate \/ LiveTimer \/ LiveTick

SpecLive ==
  Init /\ [][NextLive]_vars /\ WF_vars(LiveUpdate) /\ WF_vars(LiveTick)

-----------------------------------------------------------------------------
(* The tracker alone: the video element shows any frame at any currentTime,
   the landmarker is loaded and closed, detect is called at will *)

TrackerHands ==
  {NoHands, PoseA, OpenHand, OpenAndPose, ShortHand, UnlabelledPose, EstimatorFails}

InitTracker == Setup("none", {NoHands})

TrackerUnchanged ==
  UNCHANGED <<edgeRun, now, effectCanvas, domainEffect, timers, muryoKushoStartTime,
              muryoKushoTriggered, muryoKushoWasDetected, frames, resizes, running>>

initialize ==
  /\ handLandmarker = "none"
  /\ handLandmarker' = "loaded"
  /\ hist' = Quiet("initialize")
  /\ UNCHANGED <<video, lastVideoTime, lastResult>>
  /\ TrackerUnchanged

destroy ==
  /\ handLandmarker = "loaded"
  /\ handLandmarker' = "none"
  /\ hist' = Quiet("destroy")
  /\ UNCHANGED <<video, lastVideoTime, lastResult>>
  /\ TrackerUnchanged

VideoFrame ==
  /\ \E currentTime \in 0..MaxVideoTime : \E h \in TrackerHands :
       video' = [currentTime |-> currentTime, hands |-> h]
  /\ hist' = Quiet("video")
  /\ UNCHANGED <<handLandmarker, lastVideoTime, lastResult>>
  /\ TrackerUnchanged

CallDetect ==
  /\ \E d \in {detect(handLandmarker, lastVideoTime, lastResult, video)} :
       /\ lastVideoTime' = d.lastVideoTime
       /\ lastResult' = d.lastResult
       /\ hist' = [Quiet("detect") EXCEPT !.result = d.result,
                                          !.cached = ~d.estimated,
                                          !.estimated = d.estimated,
                                          !.threw = d.throws,
                                          !.computed =
                                            IF d.estimated /\ ~d.throws
                                            THEN ExaminedConfidences(video.hands.landmarks)
                                            ELSE <<>>,
                                          !.past =
                                            [detected |-> @.detected
                                               \/ (d.estimated /\ ~d.throws
                                                   /\ d.result.muryoKusho.detected),
                                             failed |-> @.failed \/ d.throws]]
  /\ UNCHANGED <<video, handLandmarker>>
  /\ TrackerUnchanged

NextTracker == initialize \/ destroy \/ VideoFrame \/ CallDetect

SpecTracker == InitTracker /\ [][NextTracker]_vars

-----------------------------------------------------------------------------
(* An engine that is never triggered: update() and render() are called in
   any order while the clock advances *)

CallRender ==
  /\ domainEffect' = render(domainEffect)
  /\ hist' = Quiet("render")
  /\ UNCHANGED <<edgeRun, now, effectCanvas, timers, video, handLandmarker, lastVideoTime,
                 lastResult, muryoKushoStartTime, muryoKushoTriggered,
                 muryoKushoWasDetected, frames, resizes, running>>

IdleUpdate == CallUpdate(Rand, FALSE)
IdleRender == CallRender
IdleTick == Tick({}, MaxEngineTime)

NextIdle == IdleUpdate \/ IdleRender \/ IdleTick

SpecIdle == Init /\ [][NextIdle]_vars

-----------------------------------------------------------------------------
(* The edge-triggered driver (the variant of main.ts without a hold
   duration), with the same tracker and engine.  It has no resize handler. *)

EdgeRenderLoop == EdgeFrame({0}, {0})
EdgeClockTick == frames = FramesPerTick /\ Tick(Hands, MaxTime)
EdgeWaveCallback == TimerFire({0})

NextEdge == EdgeRenderLoop \/ EdgeClockTick \/ EdgeWaveCallback

SpecEdge == Init /\ [][NextEdge]_vars

-----------------------------------------------------------------------------
(* The dwell program configured with hold duration 0 and the edge-triggered
   program, run side by side on the same frames *)

PairRenderLoop == PairFrame(0)
PairClockTick == frames = FramesPerTick /\ Tick(Hands, MaxTime)
PairWaveCallback == TimerFire({0})
PairEdgeWaveCallback == PairTimerFire

NextPair == PairRenderLoop \/ PairClockTick \/ PairWaveCallback \/ PairEdgeWaveCallback

SpecPair == Init /\ [][NextPair]_vars

-----------------------------------------------------------------------------
(* The classifier: detect is called on a frame of one or two hands drawn from
   a grid of landmark positions.  GridHand(dx, dz, h, ip, mp) has its middle
   fingertip dx, dz away from the index fingertip, its wrist h below the
   middle fingertip (so handSize = h) and its PIP joints ip, mp below the
   tips. *)

GridHand(dx, dz, h, ip, mp) ==
  HandOf(Pt(40 + dx, 30 + h, 0), Pt(40, 30 + ip, 0), Pt(40, 30, 0),
         Pt(40 + dx, 30 + mp, 0), Pt(40 + dx, 30, dz))

GridHands ==
  {GridHand(dx, dz, h, ip, mp) :
     dx \in {0, 3, 6}, dz \in {0, 4}, h \in {0, 20, 40}, ip \in {0, 10}, mp \in {0, 10}}

(* Hands that come in pairs: in the pose at three places, at the threshold,
   of size 0, with a finger bent, and with too few landmarks *)
PairHands ==
  {GridHand(0, 0, 40, 10, 10), GridHand(3, 4, 40, 10, 10), GridHand(3, 0, 40, 10, 10),
   GridHand(6, 0, 40, 10, 10), GridHand(0, 0, 0, 10, 10),
   GridHand(0, 0, 40, 0, 10), GridHand(3, 4, 40, 0, 10), GridHand(6, 0, 40, 0, 10),
   [k \in 1..12 |-> Pt(50, 70, 0)], [k \in 1..4 |-> Pt(50, 70, 0)], <<>>}

ClassifierFrames ==
  {Estimate(<<h>>, <<"Right">>) : h \in GridHands}
  \cup {Estimate(<<h1, h2>>, <<"Left", "Right">>) : h1 \in PairHands, h2 \in PairHands}

InitClassifier == Setup("loaded", ClassifierFrames)

ClassifyFrame == CallDetect

SpecClassifier == InitClassifier /\ [][ClassifyFrame]_vars

-----------------------------------------------------------------------------
(* Properties of the dwell state machine, checked under Spec *)

(* C1: within one continuous pose episode (a run of new frames that all show
   the pose) the driver invokes trigger at most once, also when the effect
   completes while the pose is still held. *)
C1_OneTriggerPerEpisode == hist.poseTriggers <= 1

(* A new frame of a pose run that has triggered, with the engine idle again
   and no resize: the effect completed while the pose was held *)
C1_HeldPastCompletion ==
  /\ hist.op = "frame" /\ hist.isNewFrame /\ hist.detected
  /\ hist.poseTriggers = 1 /\ ~hist.fire /\ hist.ct /\ resizes = 0

(* C2: the episode start time is the clock of the first new frame showing
   the pose and stays while the pose is detected; the driver never triggers
   while now - start < hold duration; with the engine idle it triggers on the
   first new frame with now - start >= hold duration, once. *)
C2_DwellThreshold ==
  /\ muryoKushoStartTime = hist.poseSince
  /\ hist.fire => Elapsed(hist.poseSince, now)
  /\ (hist.op = "frame" /\ hist.first /\ hist.ct)
       => (hist.fire /\ hist.poseTriggers = 1)

(* The trigger on a frame exactly the hold duration after the start *)
C2_TriggerAtThreshold ==
  /\ hist.op = "frame" /\ hist.first /\ hist.fire
  /\ hist.poseSince # Null /\ now - hist.poseSince[1] = muryoKushoHoldDuration

(* C3: a new frame without the pose resets the dwell state (no start time,
   fired flag false), so after a pose released before its hold duration the
   driver triggers only a full hold duration after the frame that shows the
   pose again. *)
C3_ReleaseResets ==
  /\ (hist.op = "frame" /\ hist.isNewFrame /\ ~hist.detected)
       => (muryoKushoStartTime = Null /\ ~muryoKushoTriggered)
  /\ (hist.fire /\ hist.aborted)
       => (muryoKushoStartTime = hist.poseSince /\ Elapsed(hist.poseSince, now))

(* A trigger in a pose run that follows a run released too early *)
C3_TriggerAfterRelease == hist.op = "frame" /\ hist.fire /\ hist.aborted

(* C8: when the hold duration elapses on a new frame while canTrigger() is
   false, the dwell state stays (start time kept, fired flag false, no
   trigger), and the driver triggers on the first later new frame of the run
   on which canTrigger() is true. *)
C8_BusyDeferral ==
  /\ hist.busy
       => (muryoKushoStartTime = hist.poseSince /\ ~muryoKushoTriggered /\ ~hist.fire)
  /\ (hist.op = "frame" /\ hist.isNewFrame /\ hist.detected /\ hist.deferred /\ hist.ct)
       => hist.poseTriggers = 1

(* The deferred trigger is invoked *)
C8_DeferredTrigger == hist.op = "frame" /\ hist.fire /\ hist.deferred

(* C9: an accepted episode runs to its completion condition: no step other
   than the update() that finds the condition met makes the driver's engine
   accept a trigger again. *)
C9_NoCancellation ==
  [][(domainEffect.isActive /\ ~domainEffect'.isActive)
       => (hist'.op = "frame" /\ hist'.cleared)]_vars

-----------------------------------------------------------------------------
(* Properties of the engine, checked under SpecEngine and SpecLive *)

(* C4: a trigger invoked while isActive is true changes nothing in the
   engine and schedules no callback, so two triggers in succession leave the
   one episode of the first. *)
C4_BusyTriggerIsNoOp ==
  [][(hist'.op = "trigger" /\ domainEffect.isActive)
       => (domainEffect' = domainEffect /\ timers' = timers)]_vars

(* A refused trigger right after the accepted one *)
C4_RefusedTrigger ==
  /\ hist.op = "trigger" /\ ~hist.accepted
  /\ domainEffect.isActive /\ domainEffect.epoch = 1 /\ Len(timers) = 3

(* C5: every burst line, particle and glyph the engine holds was made by its
   most recent accepted trigger, wave callbacks included. *)
C5_SingleEpisodeEntities ==
  /\ \A i \in 1..Len(domainEffect.particles) :
       domainEffect.particles[i].ep = domainEffect.epoch
  /\ \A i \in 1..Len(domainEffect.burstLines) :
       domainEffect.burstLines[i].ep = domainEffect.epoch
  /\ \A i \in 1..Len(domainEffect.floatingChars) :
       domainEffect.floatingChars[i].ep = domainEffect.epoch

(* C6: while update() keeps being called and the clock advances, an episode
   ends: isActive becomes false with no burst line, particle or glyph left. *)
C6_EpisodeTerminates ==
  (domainEffect.isActive \/ Populations(domainEffect) > 0)
    ~> (~domainEffect.isActive /\ Populations(domainEffect) = 0)

(* An episode all of whose wave callbacks ran has ended *)
C6_EpisodeEnded ==
  /\ hist.op = "update" /\ hist.cleared
  /\ domainEffect.epoch = 1 /\ timers = <<>> /\ Populations(domainEffect) = 0

(* C7: isActive is cleared by an update() call at whose end the age exceeds
   3500 ms and the three populations are empty, by every such call and by
   nothing else. *)
C7_CompletionCondition ==
  [][LET done == /\ now - domainEffect.effectStartTime > 3500
                 /\ Len(domainEffect'.particles) = 0
                 /\ Len(domainEffect'.burstLines) = 0
                 /\ Len(domainEffect'.floatingChars) = 0
     IN  /\ (domainEffect.isActive /\ ~domainEffect'.isActive)
              => (hist'.op = "update" /\ done)
         /\ (domainEffect.isActive /\ hist'.op = "update" /\ done)
              => ~domainEffect'.isActive]_vars

(* An update() has just cleared isActive *)
C7_Cleared == hist.op = "update" /\ hist.cleared /\ ~domainEffect.isActive

-----------------------------------------------------------------------------
(* Properties of the tracker, checked under SpecTracker *)

(* C10: a detect call with the currentTime of the last processed frame, or
   with no landmarker, returns the stored result with isNewFrame false, does
   not run the estimator and leaves lastResult and lastVideoTime; a call with
   another currentTime returns isNewFrame true and replaces the cache. *)
C10_FrameCache ==
  [][hist'.op = "detect"
       => IF handLandmarker = "none" \/ video.currentTime = lastVideoTime
          THEN /\ ~hist'.threw /\ ~hist'.estimated
               /\ hist'.result = [lastResult EXCEPT !.isNewFrame = FALSE]
               /\ lastResult' = lastResult /\ lastVideoTime' = lastVideoTime
          ELSE /\ ~hist'.threw
               /\ hist'.result.isNewFrame
               /\ lastResult' = hist'.result
               /\ lastVideoTime' = video.currentTime]_vars

-----------------------------------------------------------------------------
(* Stale frames, checked under Spec *)

(* C11: on a driver iteration whose result has isNewFrame = false the dwell
   state (start time, fired flag) stays and trigger is not invoked, whatever
   the cached detection says. *)
C11_StaleFramesIgnored ==
  [][(hist'.op = "frame" /\ ~hist'.isNewFrame)
       => /\ muryoKushoStartTime' = muryoKushoStartTime
          /\ muryoKushoTriggered' = muryoKushoTriggered
          /\ ~hist'.fire /\ ~hist'.accepted]_vars

(* A stale frame whose cached detection shows the pose, with the hold
   duration elapsed, no trigger yet and the engine idle *)
C11_StaleFrameThatCouldFire ==
  /\ hist.op = "frame" /\ ~hist.isNewFrame /\ hist.detected /\ hist.ct
  /\ ~muryoKushoTriggered /\ Elapsed(muryoKushoStartTime, now)

(* C24: when the dwell block invokes trigger, the point it passes is the
   centerPoint of the detection of the frame on which it fires: the ink wave
   of the trigger is placed at that point (x mirrored, scaled to the canvas),
   also when the run of detected frames started at another point. *)
C24_AnchorOfFiringFrame ==
  (hist.op = "frame" /\ hist.fire)
    => /\ hist.result.isNewFrame /\ hist.result.muryoKusho.centerPoint # Null
       /\ \E i \in 1..Len(domainEffect.particles) :
            /\ domainEffect.particles[i].ep = domainEffect.epoch
            /\ domainEffect.particles[i].wave = 0
            /\ domainEffect.particles[i].cx =
                 (200 - hist.result.muryoKusho.centerPoint[1].x) * effectCanvas.width
            /\ domainEffect.particles[i].cy =
                 hist.result.muryoKusho.centerPoint[1].y * effectCanvas.height

(* A trigger on a frame whose centerPoint is not the one the run started at *)
C24_AnchorMoved ==
  /\ hist.op = "frame" /\ hist.fire /\ hist.startAnchor # Null
  /\ hist.startAnchor # hist.result.muryoKusho.centerPoint

-----------------------------------------------------------------------------
(* Properties of the classifier, checked under SpecClassifier.  They read the
   frame in video and the result of the detect call in hist. *)

(* C12, as amended: for a hand of 21 landmarks whose wrist is not at the
   middle fingertip (in two dimensions), whose index and middle fingertips
   coincide and whose two extension checks pass, the classifier returns
   detected = true with confidence 1. *)
C12_CoincidentTipsOfAHandWithSize ==
  (hist.op = "detect" /\ hist.estimated /\ ~hist.threw
   /\ Len(video.hands.landmarks) = 1)
    => LET h == video.hands.landmarks[1]
       IN  (/\ h[INDEX_FINGER_TIP] = h[MIDDLE_FINGER_TIP]
            /\ h[INDEX_FINGER_TIP].y < h[INDEX_FINGER_PIP].y
            /\ h[MIDDLE_FINGER_TIP].y < h[MIDDLE_FINGER_PIP].y
            /\ ~(h[WRIST].x = h[MIDDLE_FINGER_TIP].x /\ h[WRIST].y = h[MIDDLE_FINGER_TIP].y))
             => (hist.result.muryoKusho.detected
                 /\ hist.result.muryoKusho.confidence = 100)

(* C12, as stated: for every hand of 21 landmarks whose index and middle
   fingertips coincide and whose two extension checks pass, the classifier
   returns detected = true with confidence 1. *)
C12_CoincidentTips ==
  (hist.op = "detect" /\ hist.estimated /\ ~hist.threw
   /\ Len(video.hands.landmarks) = 1)
    => LET h == video.hands.landmarks[1]
       IN  (/\ h[INDEX_FINGER_TIP] = h[MIDDLE_FINGER_TIP]
            /\ h[INDEX_FINGER_TIP].y < h[INDEX_FINGER_PIP].y
            /\ h[MIDDLE_FINGER_TIP].y < h[MIDDLE_FINGER_PIP].y)
             => (hist.result.muryoKusho.detected
                 /\ hist.result.muryoKusho.confidence = 100)

(* Coincident tips of a hand with a size, detected with confidence 1 *)
C12_CoincidentDetected ==
  /\ hist.op = "detect" /\ hist.estimated /\ Len(video.hands.landmarks) = 1
  /\ video.hands.landmarks[1][INDEX_FINGER_TIP] = video.hands.landmarks[1][MIDDLE_FINGER_TIP]
  /\ hist.result.muryoKusho.detected /\ hist.result.muryoKusho.confidence = 100

(* C13: a hand is detected if and only if d_tip / d_ref < 0.15 and both
   extension checks pass; with d_tip / d_ref >= 0.15, 0.15 included, it is
   not detected whatever the extension checks say. *)
C13_Threshold ==
  (hist.op = "detect" /\ hist.estimated /\ ~hist.threw
   /\ Len(video.hands.landmarks) = 1)
    => LET h == video.hands.landmarks[1]
           below == /\ HandSizeSq(h) > 0
                    /\ TipDistanceSq(h) * 400 < 9 * HandSizeSq(h)
       IN  hist.result.muryoKusho.detected
             <=> (/\ below
                  /\ h[INDEX_FINGER_TIP].y < h[INDEX_FINGER_PIP].y
                  /\ h[MIDDLE_FINGER_TIP].y < h[MIDDLE_FINGER_PIP].y)

(* A hand exactly at the threshold, both fingers extended, not detected *)
C13_AtThreshold ==
  /\ hist.op = "detect" /\ hist.estimated /\ Len(video.hands.landmarks) = 1
  /\ HandSizeSq(video.hands.landmarks[1]) > 0
  /\ TipDistanceSq(video.hands.landmarks[1]) * 400 = 9 * HandSizeSq(video.hands.landmarks[1])
  /\ video.hands.landmarks[1][INDEX_FINGER_TIP].y < video.hands.landmarks[1][INDEX_FINGER_PIP].y
  /\ video.hands.landmarks[1][MIDDLE_FINGER_TIP].y < video.hands.landmarks[1][MIDDLE_FINGER_PIP].y
  /\ ~hist.result.muryoKusho.detected

(* C14: the confidence computed for a hand with p = d_tip / d_ref is
   max(0, 1 - p / 0.15) (here in 1/100, rounded down), lies in [0, 1], is 0
   for p >= 0.15, and of two hands with the same extension state the one
   with the larger p has no larger confidence. *)
C14_Confidence ==
  (hist.op = "detect" /\ hist.estimated /\ ~hist.threw)
    => LET hands == video.hands.landmarks
           seen == {i \in 1..Len(hands) :
                      hist.computed[i] # Null /\ HandSizeSq(hands[i]) > 0}
           c(i) == hist.computed[i][1]
           t(i) == TipDistanceSq(hands[i])
           r(i) == HandSizeSq(hands[i])
           ext(i) == <<hands[i][INDEX_FINGER_TIP].y < hands[i][INDEX_FINGER_PIP].y,
                       hands[i][MIDDLE_FINGER_TIP].y < hands[i][MIDDLE_FINGER_PIP].y>>
       IN  /\ \A i \in seen :
                /\ c(i) \in 0..100
                /\ t(i) * 400 >= 9 * r(i) => c(i) = 0
                /\ t(i) * 400 < 9 * r(i) =>
                     /\ t(i) * 4000000 <= Sq(100 - c(i)) * 9 * r(i)
                     /\ c(i) = 100 \/ t(i) * 4000000 > Sq(99 - c(i)) * 9 * r(i)
           /\ \A i \in seen, j \in seen :
                (ext(i) = ext(j) /\ t(i) * r(j) <= t(j) * r(i)) => c(i) >= c(j)

(* Two hands with the same extension state, the second with the larger p and
   the smaller confidence, above 0 *)
C14_TwoConfidences ==
  /\ hist.op = "detect" /\ hist.estimated /\ Len(hist.computed) = 2
  /\ hist.computed[1] # Null /\ hist.computed[2] # Null
  /\ hist.computed[1][1] > hist.computed[2][1] /\ hist.computed[2][1] > 0

(* C15: a hand whose reference distance (wrist to middle fingertip, in two
   dimensions) is 0 is not detected, coincident fingertips included, and the
   result of detect never carries a confidence that is not finite. *)
C15_DegenerateGeometry ==
  (hist.op = "detect" /\ hist.estimated /\ ~hist.threw)
    => /\ hist.result.muryoKusho.confidence # NaN
       /\ hist.result.muryoKusho.confidence \in 0..100
       /\ (Len(video.hands.landmarks) = 1
           /\ Len(video.hands.landmarks[1]) = 21
           /\ HandSizeSq(video.hands.landmarks[1]) = 0)
            => hist.result.muryoKusho = NoDetection

(* A hand of size 0 with coincident tips and both fingers extended: the
   confidence computed is NaN, the result is no detection *)
C15_ZeroOverZero ==
  /\ hist.op = "detect" /\ hist.estimated /\ Len(video.hands.landmarks) = 1
  /\ hist.computed = <<Some(NaN)>>
  /\ video.hands.landmarks[1][INDEX_FINGER_TIP].y < video.hands.landmarks[1][INDEX_FINGER_PIP].y
  /\ video.hands.landmarks[1][MIDDLE_FINGER_TIP].y < video.hands.landmarks[1][MIDDLE_FINGER_PIP].y
  /\ ~hist.result.muryoKusho.detected

(* C16: the detection returned is that of the first hand, in the estimator's
   order, that is in the pose: its anchor is the midpoint of that hand's
   index and middle fingertips, its confidence that hand's; the hands after
   it are not examined; with no hand in the pose there is no detection. *)
C16_FirstHandWins ==
  (hist.op = "detect" /\ hist.estimated /\ ~hist.threw)
    => LET hands == video.hands.landmarks
           inPose == {i \in 1..Len(hands) : ClassifyHand(hands[i]).detected}
       IN  IF inPose = {} THEN hist.result.muryoKusho = NoDetection
           ELSE LET k == CHOOSE i \in inPose : \A j \in inPose : i <= j
                IN  /\ hist.result.muryoKusho.detected
                    /\ hist.result.muryoKusho.centerPoint =
                         Some([x |-> hands[k][INDEX_FINGER_TIP].x + hands[k][MIDDLE_FINGER_TIP].x,
                               y |-> hands[k][INDEX_FINGER_TIP].y + hands[k][MIDDLE_FINGER_TIP].y])
                    /\ hist.result.muryoKusho.confidence =
                         ConfidenceOf(TipDistanceSq(hands[k]), HandSizeSq(hands[k]))
                    /\ \A j \in (k + 1)..Len(hands) : hist.computed[j] = Null

(* Two hands in the pose with different anchors *)
C16_TwoHandsInPose ==
  /\ hist.op = "detect" /\ hist.estimated /\ Len(video.hands.landmarks) = 2
  /\ ClassifyHand(video.hands.landmarks[1]).detected
  /\ ClassifyHand(video.hands.landmarks[2]).detected
  /\ ClassifyHand(video.hands.landmarks[1]) # ClassifyHand(video.hands.landmarks[2])

(* C17: on a new frame with a hand of fewer than 21 landmarks (fewer than 9
   and none included) detect returns without an error, that hand gives no
   detection and the other hands of the frame are classified. *)
C17_ShortHandsSkipped ==
  (hist.op = "detect" /\ hist.estimated /\ ~video.hands.fails
   /\ \E i \in 1..Len(video.hands.landmarks) : Len(video.hands.landmarks[i]) < 21)
    => /\ ~hist.threw
       /\ hist.result.isNewFrame
       /\ hist.result.muryoKusho.detected
            <=> \E j \in 1..Len(video.hands.landmarks) :
                  ClassifyHand(video.hands.landmarks[j]).detected

-----------------------------------------------------------------------------
(* Estimator failure, checked under SpecTracker *)

(* C18: when detectForVideo fails on a new frame, detect does not throw; it
   returns a result with no hand and detected = false, and lastVideoTime and
   lastResult are those of that frame. *)
C18_EstimatorFailureContained ==
  (hist.op = "detect" /\ hist.estimated /\ video.hands.fails)
    => /\ ~hist.threw
       /\ hist.result.isNewFrame
       /\ ~hist.result.muryoKusho.detected
       /\ hist.result.rightIndexFingerTip = Null
       /\ hist.result.leftIndexFingerTip = Null
       /\ lastVideoTime = video.currentTime
       /\ lastResult = hist.result

-----------------------------------------------------------------------------
(* The idle engine, checked under SpecIdle *)

(* C19: on an engine that was never triggered, every sequence of update()
   and render() calls leaves isActive, effectStartTime, flashOpacity,
   shakeIntensity, shakeOffset and the three populations as they were. *)
C19_IdleNoOp == domainEffect = NewEffect

(* update() and render() have been called after the clock advanced *)
C19_IdleCalls == hist.op = "render" /\ frames > 0 /\ now > 0

-----------------------------------------------------------------------------
(* The edge-triggered driver, checked under SpecEdge *)

(* C20, as amended: the edge-triggered driver invokes trigger on exactly
   those new frames where detected is true, the previous new frame's
   detected was false and canTrigger() is true. *)
C20_RisingEdgeWhenIdle ==
  hist.op = "frame" => (hist.fire <=> (hist.rising /\ hist.ct))

(* C20, as stated: the edge-triggered driver invokes trigger on exactly
   those new frames where detected is true and the previous new frame's
   detected was false. *)
C20_RisingEdge ==
  hist.op = "frame" => (hist.fire <=> hist.rising)

(* A trigger on a rising edge that follows an earlier pose *)
C20_SecondRisingEdge ==
  /\ hist.op = "frame" /\ hist.fire /\ hist.rising /\ domainEffect.epoch = 2

-----------------------------------------------------------------------------
(* The two trigger policies side by side, checked under SpecPair *)

(* C21, as amended: while the dwell program with hold duration 0 and the
   edge-triggered program have read the same canTrigger() on every frame, they
   invoke trigger on the same frames in every run of detected new frames
   whose first frame finds the engine idle (on that first frame, once); in a
   run whose first frame finds the engine busy the edge-triggered program
   does not invoke trigger and the dwell program invokes it on the first new
   frame of the run on which the engine is idle. *)
C21_PolicyRefinementInStep ==
  (hist.op = "frame" /\ hist.edge.agree)
    => /\ hist.poseSince = Null => (~hist.fire /\ ~hist.edge.fire)
       /\ (hist.poseSince # Null /\ hist.edge.startCt[1])
            => (hist.fire <=> hist.edge.fire) /\ (hist.fire <=> hist.rising)
       /\ (hist.poseSince # Null /\ ~hist.edge.startCt[1])
            => /\ ~hist.edge.fire /\ hist.edge.triggers = 0
               /\ hist.fire => (hist.isNewFrame /\ hist.ct /\ hist.poseTriggers = 1)
               /\ (hist.isNewFrame /\ hist.ct) => hist.poseTriggers = 1

(* C21, as stated: the two programs invoke trigger on the same frames in every
   run whose first frame finds the engine idle; a frame on which only one of
   them invokes trigger lies in a run whose first frame found the engine
   busy, it is the dwell program that invokes it, and the edge-triggered
   program invokes none in that run. *)
C21_PolicyRefinement ==
  hist.op = "frame"
    => /\ (hist.poseSince # Null /\ hist.edge.startCt = <<TRUE, TRUE>>)
            => (hist.fire <=> hist.edge.fire)
       /\ (hist.fire # hist.edge.fire)
            => /\ hist.poseSince # Null
               /\ ~hist.edge.startCt[1] \/ ~hist.edge.startCt[2]
               /\ hist.fire /\ ~hist.edge.fire /\ hist.edge.triggers = 0

(* The dwell program triggers late in a run whose first frame found both
   engines busy; the edge-triggered program has dropped that run *)
C21_DeferredNotDropped ==
  /\ hist.op = "frame" /\ hist.edge.agree /\ hist.fire /\ ~hist.rising
  /\ hist.edge.startCt = <<FALSE, FALSE>> /\ hist.edge.triggers = 0

-----------------------------------------------------------------------------
(* Further properties of the engine, checked under SpecEngine (C29 under
   SpecLive, whose triggers draw the longest maxLife too) *)

(* C22: the three populations of the engine change only inside trigger() and
   update(): no other step (no deferred callback) changes particles,
   burstLines or floatingChars between two engine calls. *)
C22_NoDeferredCallbacks ==
  [][(\/ domainEffect'.particles # domainEffect.particles
      \/ domainEffect'.burstLines # domainEffect.burstLines
      \/ domainEffect'.floatingChars # domainEffect.floatingChars)
       => hist'.op \in {"trigger", "update"}]_vars

(* C23: in every state where update() has just cleared isActive,
   flashOpacity = 0, shakeIntensity = 0 and shakeOffset = (0, 0), however
   many update() calls the clock values had. *)
C23_ScalarsResetAtCompletion ==
  hist.cleared
    => /\ domainEffect.flashOpacity = 0
       /\ domainEffect.shakeIntensity = 0
       /\ domainEffect.shakeOffset = [x |-> 0, y |-> 0]

(* update() has just cleared isActive, at age 4000 ms *)
C23_ClearedAtRest ==
  /\ hist.op = "update" /\ hist.cleared /\ ~domainEffect.isActive
  /\ now - domainEffect.effectStartTime = 4000
  /\ domainEffect.flashOpacity = 0 /\ domainEffect.shakeIntensity = 0

(* C25: an accepted trigger spawns wave 0 (60 particles) itself and schedules
   waves 1, 2, 3 for 100, 200 and 350 ms later at the anchor of the trigger;
   a wave callback runs not before its time, after the waves of its trigger
   with a smaller index, once, and adds 50, 40 or 30 particles at that
   anchor; nothing else adds particles. *)
C25_InkWaves ==
  [][/\ (hist'.op = "trigger" /\ ~domainEffect.isActive)
          => LET w0 == domainEffect'.particles[Len(domainEffect'.particles)]
             IN  /\ Len(domainEffect'.particles) = Len(domainEffect.particles) + 1
                 /\ w0.n = 60 /\ w0.wave = 0 /\ w0.life = 0
                 /\ w0.ep = domainEffect'.epoch
                 /\ Len(timers') = Len(timers) + 3
                 /\ SubSeq(timers', 1, Len(timers)) = timers
                 /\ \A k \in 1..3 :
                      LET tm == timers'[Len(timers) + k]
                      IN  /\ tm.wave = k /\ tm.ep = w0.ep
                          /\ tm.cx = w0.cx /\ tm.cy = w0.cy
                          /\ tm.due = now + <<100, 200, 350>>[k]
     /\ hist'.op = "timer"
          => \E i \in 1..Len(timers) :
               LET tm == timers[i]
                   w  == domainEffect'.particles[Len(domainEffect'.particles)]
               IN  /\ timers' = SubSeq(timers, 1, i - 1) \o SubSeq(timers, i + 1, Len(timers))
                   /\ Len(domainEffect'.particles) = Len(domainEffect.particles) + 1
                   /\ w.n = <<50, 40, 30>>[tm.wave] /\ w.wave = tm.wave /\ w.life = 0
                   /\ w.ep = tm.ep /\ w.cx = tm.cx /\ w.cy = tm.cy
                   /\ now >= tm.due
                   /\ \A j \in 1..Len(timers') :
                        timers'[j].ep = tm.ep => timers'[j].wave > tm.wave
     /\ (Len(domainEffect'.particles) > Len(domainEffect.particles) \/ timers' # timers)
          => hist'.op \in {"trigger", "timer"}]_vars

(* The callback of wave 3 has run: the four waves of the trigger are spawned *)
C25_LastWave ==
  /\ hist.op = "timer" /\ timers = <<>> /\ domainEffect.epoch = 1
  /\ domainEffect.particles # <<>>
  /\ domainEffect.particles[Len(domainEffect.particles)].wave = 3
  /\ domainEffect.particles[Len(domainEffect.particles)].n = 30

(* C26: right after trigger(anchor) on an inactive engine isActive is true,
   effectStartTime = now, flashOpacity = 1, shakeIntensity = 20, burstLines
   holds 120 lines (36 of layer 0, 72 + 12 of layer 1) of length 0, particles
   has the 60 particles of wave 0 with life 0 and floatingChars holds 8 glyphs
   (4 per text group) of opacity 0. *)
C26_TriggerPostcondition ==
  [][(hist'.op = "trigger" /\ ~domainEffect.isActive)
       => LET e == domainEffect'
              w0 == e.particles[Len(e.particles)]
          IN  /\ e.isActive /\ e.effectStartTime = now
              /\ e.flashOpacity = 10000 /\ e.shakeIntensity = 200000
              /\ [i \in 1..Len(e.burstLines) |->
                    <<e.burstLines[i].n, e.burstLines[i].layer>>]
                   = << <<36, 0>>, <<72, 1>>, <<12, 1>> >>
              /\ \A i \in 1..Len(e.burstLines) : e.burstLines[i].length = 0
              /\ e.particles = domainEffect.particles \o <<w0>>
              /\ w0.n = 60 /\ w0.wave = 0 /\ w0.life = 0
              /\ [i \in 1..Len(e.floatingChars) |->
                    <<e.floatingChars[i].n, e.floatingChars[i].groupIndex>>]
                   = << <<1, 0>>, <<1, 0>>, <<1, 0>>, <<1, 0>>,
                        <<1, 1>>, <<1, 1>>, <<1, 1>>, <<1, 1>> >>
              /\ \A i \in 1..Len(e.floatingChars) : e.floatingChars[i].opacity = 0]_vars

(* An accepted trigger at a clock value after 0 *)
C26_Triggered ==
  /\ hist.op = "trigger" /\ hist.accepted /\ now > 0
  /\ domainEffect.effectStartTime = now
  /\ Len(domainEffect.burstLines) = 3 /\ Len(domainEffect.floatingChars) = 8

(* C27: update() leaves a burst line as it is while now - startTime < delay;
   a line whose length is below targetLength has the opacity it was made
   with; a burst line leaves the population only in an update() in which its
   length has reached targetLength and its opacity has come to <= 0. *)
C27_BurstLineLifecycle ==
  [][/\ hist'.op = "update"
          => \A i \in 1..Len(domainEffect.burstLines) :
               LET l == domainEffect.burstLines[i]
                   after == {j \in 1..Len(domainEffect'.burstLines) :
                               /\ domainEffect'.burstLines[j].ep = l.ep
                               /\ domainEffect'.burstLines[j].n = l.n}
               IN  /\ (now - l.startTime) * 100 < l.delay
                        => \E j \in after : domainEffect'.burstLines[j] = l
                   /\ after = {}
                        => (l.length + l.speed >= l.targetLength /\ l.opacity - 250 <= 0)
     /\ \A j \in 1..Len(domainEffect'.burstLines) :
          LET l == domainEffect'.burstLines[j]
          IN  l.length < l.targetLength
                => l.opacity = (CASE l.n = 36 -> 6000 [] l.n = 72 -> 10000 [] OTHER -> 8000)
     /\ Len(domainEffect'.burstLines) < Len(domainEffect.burstLines)
          => hist'.op = "update"]_vars

(* An update() at the clock value of the trigger: the front lines wait for
   their delay, the dramatic lines have grown *)
C27_LinesWaiting ==
  /\ hist.op = "update" /\ now = domainEffect.effectStartTime
  /\ \E i \in 1..Len(domainEffect.burstLines) :
       domainEffect.burstLines[i].delay > 0 /\ domainEffect.burstLines[i].length = 0
  /\ \E i \in 1..Len(domainEffect.burstLines) : domainEffect.burstLines[i].length > 0

(* C28: a burst line past its delay grows by its speed per update() until its
   length has reached targetLength; from then on update() leaves its length
   and changes only its opacity. *)
C28_GrowthStopsAtTarget ==
  [][hist'.op = "update"
       => \A i \in 1..Len(domainEffect.burstLines) :
          \A j \in 1..Len(domainEffect'.burstLines) :
            LET l == domainEffect.burstLines[i]
                m == domainEffect'.burstLines[j]
            IN  (m.ep = l.ep /\ m.n = l.n /\ (now - l.startTime) * 100 >= l.delay)
                  => m.length = (IF l.length >= l.targetLength THEN l.length
                                 ELSE l.length + l.speed)]_vars

(* C29: every particle in the population has life < maxLife, maxLife <= 140
   and opacity >= 0.01; an update() adds exactly 1 to the life of every
   particle it keeps, and makes no particle. *)
C29_ParticleLifetime ==
  [][/\ \A j \in 1..Len(domainEffect'.particles) :
          LET p == domainEffect'.particles[j]
          IN  p.life * 100 < p.maxLife /\ p.maxLife <= 14000 /\ p.opacity >= 100
     /\ hist'.op = "update"
          => \A j \in 1..Len(domainEffect'.particles) :
               \E i \in 1..Len(domainEffect.particles) :
                 /\ domainEffect.particles[i].ep = domainEffect'.particles[j].ep
                 /\ domainEffect.particles[i].wave = domainEffect'.particles[j].wave
                 /\ domainEffect'.particles[j].life = domainEffect.particles[i].life + 1]_vars

(* A particle of the longest life one update() before its maxLife, fading *)
C29_LastUpdateOfAParticle ==
  /\ hist.op = "update"
  /\ \E i \in 1..Len(domainEffect.particles) :
       /\ (domainEffect.particles[i].life + 1) * 100 >= domainEffect.particles[i].maxLife
       /\ domainEffect.particles[i].life > 100
       /\ domainEffect.particles[i].opacity < 7000

(* C30: update() leaves a glyph as it is while now - startTime < delay; up to
   an age of 2500 ms the opacity of a revealed glyph does not decrease and
   stays below 1; past 2500 ms no glyph waits, every update() lowers the
   opacity of every glyph, and a glyph leaves the population in the update()
   in which its opacity comes to <= 0, and only there. *)
C30_GlyphPhases ==
  [][/\ hist'.op = "update"
          => \A i \in 1..Len(domainEffect.floatingChars) :
               LET c == domainEffect.floatingChars[i]
                   age == now - domainEffect.effectStartTime
                   waits == now - c.startTime < c.delay
                   after == {j \in 1..Len(domainEffect'.floatingChars) :
                               /\ domainEffect'.floatingChars[j].ep = c.ep
                               /\ domainEffect'.floatingChars[j].groupIndex = c.groupIndex
                               /\ domainEffect'.floatingChars[j].char = c.char}
               IN  /\ waits => \E j \in after : domainEffect'.floatingChars[j] = c
                   /\ (~waits /\ age <= 2500)
                        => \E j \in after :
                             /\ domainEffect'.floatingChars[j].opacity >= c.opacity
                             /\ domainEffect'.floatingChars[j].opacity < 10000
                   /\ age > 2500
                        => /\ ~waits
                           /\ \A j \in after :
                                /\ domainEffect'.floatingChars[j].opacity < c.opacity
                                /\ domainEffect'.floatingChars[j].opacity > 0
                           /\ after = {} <=> c.opacity - 400 <= 0
     /\ Len(domainEffect'.floatingChars) < Len(domainEffect.floatingChars)
          => (hist'.op = "update" /\ now - domainEffect.effectStartTime > 2500)]_vars

(* An update() past 2500 ms that has lowered the opacity of a glyph it keeps *)
C30_FadingGlyph ==
  /\ hist.op = "update" /\ now - domainEffect.effectStartTime > 2500
  /\ \E i \in 1..Len(domainEffect.floatingChars) :
       /\ domainEffect.floatingChars[i].opacity > 0
       /\ domainEffect.floatingChars[i].opacity < 9000


-----------------------------------------------------------------------------
(* C31: render guard.  Whenever the engine is in a state in which render()
   takes its early return (not active, no particle, no burst line,
   flashOpacity 0), floatingChars is empty as well: the guard, which does not
   look at the glyphs, never skips a live glyph. *)
C31_RenderGuard ==
  RenderReturnsEarly(domainEffect) => Len(domainEffect.floatingChars) = 0

(* render() would return early on an engine that has run an episode to its end *)
C31_NothingToDraw ==
  /\ domainEffect.epoch = 1
  /\ hist.op = "tick"
  /\ RenderReturnsEarly(domainEffect)
  /\ timers = <<>>


-----------------------------------------------------------------------------
(* C32: per-frame order.  Every iteration of the driver's render(), on a new
   or a stale frame, runs detect, then the dwell evaluation (new frames only),
   then update() once, then render() once: a trigger is issued on new frames
   only, and the engine the iteration leaves is the one before it after the
   iteration's trigger (if any), one update() and render(), in that order. *)
C32_PerFrameOrder ==
  [][hist'.op \in {"frame", "throw"} =>
       LET fired == hist'.op = "frame" /\ hist'.fire
           e1 == IF fired
                 THEN trigger(domainEffect, hist'.result.muryoKusho.centerPoint[1],
                              effectCanvas, now, 0, 0)
                 ELSE domainEffect
       IN  /\ fired => hist'.isNewFrame
           /\ domainEffect' = render(update(e1, now, 0, 0))]_vars


-----------------------------------------------------------------------------
(* C33: missing handedness.  A hand of a new frame whose handedness is missing
   or empty is treated as absent: when detect returns for a new frame none of
   whose hands has a handedness, it reports no pose (detected false, no
   centerPoint, confidence 0) and no fingertip position. *)
C33_MissingHandedness ==
  ( /\ hist.op = "detect"
    /\ hist.estimated
    /\ ~hist.threw
    /\ \A i \in 1..Len(video.hands.landmarks) : Len(video.hands.handednesses[i]) = 0 )
  => /\ hist.result.muryoKusho = NoDetection
     /\ hist.result.rightIndexFingerTip = Null
     /\ hist.result.leftIndexFingerTip = Null


-----------------------------------------------------------------------------
(* C34: well-formed detections.  Every result detect returns, computed for a
   new frame or taken from the cache, carries a pose detection of one of two
   shapes: not detected, with no centerPoint and confidence 0; or detected,
   with a centerPoint that is a point and a confidence above 0 and at most 1
   (100 in 1/100). *)
C34_DetectionWellFormed ==
  hist.op = "detect" /\ ~hist.threw =>
    LET m == hist.result.muryoKusho
    IN  IF m.detected
        THEN /\ m.centerPoint # Null
             /\ DOMAIN m.centerPoint[1] = {"x", "y"}
             /\ m.confidence > 0
             /\ m.confidence <= 100
        ELSE m.centerPoint = Null /\ m.confidence = 0

(* detect returns a detection of the pose from its cache *)
C34_CachedDetection ==
  /\ hist.op = "detect"
  /\ hist.cached
  /\ ~hist.result.isNewFrame
  /\ hist.result.muryoKusho.detected
  /\ hist.result.muryoKusho.confidence < 100


-----------------------------------------------------------------------------
(* C35: stateless classification.  The pose detection detect returns for a
   new frame depends on the landmark sets of that frame only: a second tracker
   with any other history (any lastVideoTime other than the frame's, any
   lastResult a tracker can hold) to which the same frame is new returns the
   same detected, centerPoint and confidence. *)
C35_StatelessClassification ==
  hist.op = "detect" /\ hist.estimated /\ ~hist.threw =>
    LET results == {InitialResult}
                   \cup {FreshResult(h) :
                           h \in {PoseA, PoseB, OpenHand, OpenAndPose, UnlabelledPose}}
    IN  \A t \in (-1..MaxVideoTime) \ {video.currentTime} : \A last \in results :
          LET other == detect("loaded", t, last, video)
          IN  /\ ~other.throws
              /\ other.result.isNewFrame
              /\ other.result.muryoKusho = hist.result.muryoKusho

(* detect reports no pose for a new frame, on a tracker that has returned a
   detection and has had a failure before *)
C35_NoPoseAfterDetectionAndFailure ==
  /\ hist.op = "detect"
  /\ hist.estimated
  /\ ~hist.threw
  /\ ~hist.result.muryoKusho.detected
  /\ hist.past.detected
  /\ hist.past.failed
  /\ lastVideoTime > 0


-----------------------------------------------------------------------------
(* C36: inactive implies empty.  In every state of the engine in which
   isActive is false, burstLines, particles and floatingChars are all empty,
   whenever the deferred wave callbacks run relative to update(). *)
C36_InactiveImpliesEmpty ==
  ~domainEffect.isActive =>
    /\ Len(domainEffect.burstLines) = 0
    /\ Len(domainEffect.particles) = 0
    /\ Len(domainEffect.floatingChars) = 0

-----------------------------------------------------------------------------
(* C37: canTrigger() is true exactly when isEffectActive() is false: the
   engine never accepts a trigger while isEffectActive() reports live
   particles, burst lines or a flash. *)
C37_CanTriggerIffNotEffectActive ==
  canTrigger(domainEffect) <=> ~isEffectActive(domainEffect)


-----------------------------------------------------------------------------
(* C38: minimum spacing.  On one engine, canTrigger() is false until more
   than 3500 ms have passed since the last accepted trigger, however often
   update() is called; so an accepted trigger comes more than 3500 ms after
   the accepted trigger before it. *)
C38_MinimumSpacing ==
  [][/\ domainEffect'.epoch >= 1 /\ canTrigger(domainEffect')
          => now' - domainEffect'.effectStartTime > 3500
     /\ hist'.op = "trigger" /\ hist'.accepted /\ domainEffect.epoch >= 1
          => /\ now - domainEffect.effectStartTime > 3500
             /\ domainEffect'.effectStartTime = now]_vars

(* the engine has accepted a second trigger *)
C38_SecondTrigger ==
  hist.op = "trigger" /\ hist.accepted /\ domainEffect.epoch = 2


-----------------------------------------------------------------------------
(* C39: dwell state well-formedness.  The pair (muryoKushoStartTime,
   muryoKushoTriggered) is always IDLE (none, false), CHARGING (set, false) or
   FIRED (set, true), never (none, true); and FIRED is entered only from
   CHARGING, with the start time kept, by an iteration that invokes trigger. *)
C39_DwellStateWellFormed ==
  [][/\ ~(muryoKushoStartTime = Null /\ muryoKushoTriggered)
     /\ ~(muryoKushoStartTime' = Null /\ muryoKushoTriggered')
     /\ ~muryoKushoTriggered /\ muryoKushoTriggered'
          => /\ muryoKushoStartTime # Null
             /\ muryoKushoStartTime' = muryoKushoStartTime
             /\ hist'.op = "frame"
             /\ hist'.fire]_vars

(* the driver has just entered FIRED *)
C39_Fired ==
  /\ hist.op = "frame"
  /\ hist.fire
  /\ muryoKushoTriggered
  /\ muryoKushoStartTime # Null
  /\ hist.poseTriggers = 1

====
